---- MODULE Spec2Model ----
(***************************************************************************)
(* Model of git-state (src/index.js): a facade that answers questions      *)
(* about a git repository by running one external git command per query    *)
(* and parsing its stdout.  Strings are sequences of one-character         *)
(* strings.  A call is either synchronous (execSync, one atomic step) or   *)
(* asynchronous (exec spawns a process; its completion callback is a       *)
(* later step).                                                            *)
(***************************************************************************)
EXTENDS Integers, Sequences, FiniteSets, TLC

VARIABLES
    op,        \* the exported function that is called
    form,      \* "sync" or "async"
    cfgGiven,  \* TRUE: f(repo, opts[, cb]); FALSE: f(repo[, cb])
    runtime,   \* flavour of the Node.js runtime (shape of the maxBuffer error)
    phase,     \* "init" before the call, "running", "done" once nothing is in flight
    pcq,       \* per query: "idle", "exec" (process in flight), "exec2", "done"
    remote,    \* behind's local variable `remote`
    settled,   \* per query: the completion handed to the query's callback
    repo,      \* the answer the repository gave to each command run so far
    spawnLog,  \* the external commands spawned, in order
    cbCalls,   \* the invocations of the caller's callback, in order
    ret,       \* what the synchronous call returned or threw
    uncaught   \* TRUE once a callback threw (uncaught TypeError)

vars == <<op, form, cfgGiven, runtime, phase, pcq, remote, settled, repo,
          spawnLog, cbCalls, ret, uncaught>>

-----------------------------------------------------------------------------
(* Bounds *)

MaxLen == 4      \* longest generic stdout, in characters
MaxFiles == 2    \* most lines of a `git status -s` output

-----------------------------------------------------------------------------
(* Strings *)

Chars == {"a", " ", "\n", "\r"}

RECURSIVE StringsUpTo(_)
StringsUpTo(n) ==
    IF n = 0 THEN {<<>>}
    ELSE LET shorter == StringsUpTo(n - 1)
         IN  shorter \cup {Append(s, c) : s \in {t \in shorter : Len(t) = n - 1}, c \in Chars}

Strings == StringsUpTo(MaxLen)

IsWhiteSpace(c) == c \in {" ", "\n", "\r"}

RECURSIVE TrimStart(_)
TrimStart(s) ==
    IF s # <<>> /\ IsWhiteSpace(Head(s)) THEN TrimStart(Tail(s)) ELSE s

RECURSIVE TrimEnd(_)
TrimEnd(s) ==
    IF s # <<>> /\ IsWhiteSpace(s[Len(s)]) THEN TrimEnd(SubSeq(s, 1, Len(s) - 1)) ELSE s

\* a trim of the leading white space only
TrimBuggy(s) == TrimStart(s)

\* String.prototype.trim
Trim(s) == TrimEnd(TrimStart(s))

\* s.split(EOL) with EOL = /\r?\n/ : i is the scan position, cur the piece
\* being collected, acc the pieces already cut
RECURSIVE SplitFrom(_, _, _, _)
SplitFrom(s, i, cur, acc) ==
    IF i > Len(s) THEN Append(acc, cur)
    ELSE IF s[i] = "\r" /\ i < Len(s) /\ s[i + 1] = "\n"
         THEN SplitFrom(s, i + 2, <<>>, Append(acc, cur))
    ELSE IF s[i] = "\n"
         THEN SplitFrom(s, i + 1, <<>>, Append(acc, cur))
    ELSE SplitFrom(s, i + 1, Append(cur, s[i]), acc)

SplitEOL(s) == SplitFrom(s, 1, <<>>, <<>>)

\* .filter(Boolean) on an array of strings: the empty string is falsy
IsTruthyString(x) == x # <<>>

\* the filter left out
FilterBooleanBuggy(lines) == lines

FilterBoolean(lines) == SelectSeq(lines, IsTruthyString)

\* file.substr(0, n)
Substr0(s, n) == SubSeq(s, 1, IF Len(s) < n THEN Len(s) ELSE n)

Digits == <<"0", "1", "2", "3", "4", "5", "6", "7", "8", "9">>

\* String(n) for a non-negative integer
RECURSIVE NumberToString(_)
NumberToString(n) ==
    IF n < 10 THEN <<Digits[n + 1]>>
    ELSE Append(NumberToString(n \div 10), Digits[(n % 10) + 1])

DigitValue(c) == CHOOSE d \in 0..9 : Digits[d + 1] = c

\* the decimal number read off the leading digits of s; acc is the value so far
RECURSIVE ParseDigits(_, _)
ParseDigits(s, acc) ==
    IF s = <<>> \/ ~(\E d \in 0..9 : Digits[d + 1] = Head(s)) THEN acc
    ELSE ParseDigits(Tail(s), acc * 10 + DigitValue(Head(s)))

\* parseInt(n, 10) applied to a number: the number is converted to its decimal
\* string, which is then parsed
ParseInt(n) == ParseDigits(NumberToString(n), 0)

-----------------------------------------------------------------------------
(* JavaScript values, errors and completions *)

V(t, s, n, u) == [t |-> t, s |-> s, n |-> n, u |-> u]
Str(s) == V("string", s, 0, 0)
Num(n) == V("number", <<>>, n, 0)
NaN == V("NaN", <<>>, 0, 0)
Null == V("null", <<>>, 0, 0)
Undefined == V("undefined", <<>>, 0, 0)
StatusCounts(d, u) == V("status", <<>>, d, u)

IsAbsent(v) == v \in {Null, Undefined}

NoError == [code |-> "", message |-> "", cmd |-> ""]

Value(v) == [kind |-> "value", val |-> v, err |-> NoError]
Error(e) == [kind |-> "error", val |-> Undefined, err |-> e]
Pending == [kind |-> "pending", val |-> Undefined, err |-> NoError]

-----------------------------------------------------------------------------
(* The external commands and what the repository answers *)

Cmds == {"branch", "remote", "ahead", "behindList", "status", "commit", "stash", "message"}

Queries == {"branch", "remoteBranch", "ahead", "behind", "status", "dirty",
            "untracked", "commit", "stashes", "message"}

Runtimes == {"legacy", "v10", "modern"}

NotRun == [kind |-> "notrun", stdout |-> <<>>]
Ok(out) == [kind |-> "ok", stdout |-> out]
Fail == [kind |-> "fail", stdout |-> <<>>]
StdoutOverflow == [kind |-> "stdoutOverflow", stdout |-> <<>>]
StderrOverflow == [kind |-> "stderrOverflow", stdout |-> <<>>]

IsOverflow(o) == o \in {StdoutOverflow, StderrOverflow}

\* `git status -s` prints one line per file: a two-character marker, a space,
\* the path; "??" marks an untracked file
StatusLines == {<<" ", "M", " ", "a">>, <<"M", " ", " ", "a">>, <<"?", "?", " ", "a">>}
Terminators == {<<"\n">>, <<"\r", "\n">>}

RECURSIVE StatusOutputsOf(_, _)
StatusOutputsOf(n, eol) ==
    IF n = 0 THEN {<<>>}
    ELSE LET fewer == StatusOutputsOf(n - 1, eol)
         IN  fewer \cup {l \o eol \o rest : l \in StatusLines, rest \in fewer}

StatusOutputs == UNION {StatusOutputsOf(MaxFiles, eol) : eol \in Terminators}

\* one representative stdout per command, used where several commands run in
\* the same call
SampleStdout(cmd) ==
    CASE cmd = "branch"     -> <<"a", "\n">>
      [] cmd = "remote"     -> <<"a", "a", "\n">>
      [] cmd = "ahead"      -> <<"a", "\n">>
      [] cmd = "behindList" -> <<"a", "\n", "a", "\n">>
      [] cmd = "status"     -> <<" ", "M", " ", "a", "\n", "M", " ", " ", "a", "\n", "?", "?", " ", "a", "\n">>
      [] cmd = "stash"      -> <<"a", "\n", "a", "\n", "a", "\n">>
      [] OTHER              -> <<"a", "\n">>

Stdouts(o, cmd) ==
    IF o = "check" \/ (o = "behind" /\ cmd = "remote") THEN {SampleStdout(cmd)}
    ELSE IF cmd = "status" THEN StatusOutputs
    ELSE Strings

\* the synchronous remoteBranch and behind commands end in `2> nullPath`, and
\* `git show-ref` is silenced in both forms: those capture no stderr at all
CapturesStderr(f, cmd) == ~(f = "sync" /\ cmd \in {"remote", "behindList"})

Outcomes(o, f, cmd) ==
    {Ok(out) : out \in Stdouts(o, cmd)} \cup {Fail, StdoutOverflow}
        \cup (IF CapturesStderr(f, cmd) THEN {StderrOverflow} ELSE {})

\* the commands a call of o can run
CmdsOf(o) ==
    CASE o = "branch"       -> {"branch"}
      [] o = "remoteBranch" -> {"remote"}
      [] o = "ahead"        -> {"ahead"}
      [] o = "behind"       -> {"remote", "behindList"}
      [] o \in {"status", "dirty", "untracked"} -> {"status"}
      [] o = "commit"       -> {"commit"}
      [] o = "stashes"      -> {"stash"}
      [] o = "message"      -> {"message"}
      [] o = "check"        -> {"branch", "remote", "ahead", "behindList", "stash", "status"}

AnswerSet(o, f, cmd) == IF cmd \in CmdsOf(o) THEN Outcomes(o, f, cmd) ELSE {NotRun}

\* every way the (unchanging) repository can answer the commands of a call
RepoAnswers(o, f) ==
    [branch : AnswerSet(o, f, "branch"), remote : AnswerSet(o, f, "remote"),
     ahead : AnswerSet(o, f, "ahead"), behindList : AnswerSet(o, f, "behindList"),
     status : AnswerSet(o, f, "status"), commit : AnswerSet(o, f, "commit"),
     stash : AnswerSet(o, f, "stash"), message : AnswerSet(o, f, "message")]

-----------------------------------------------------------------------------
(* child_process: the error objects exec and execSync produce *)

MaxBufferCode(rt) == IF rt = "legacy" THEN "undefined" ELSE "ERR_CHILD_PROCESS_STDIO_MAXBUFFER"

MaxBufferMessage(rt, stream) ==
    IF rt = "modern"
    THEN (IF stream = "stdout" THEN "stdout maxBuffer length exceeded"
                               ELSE "stderr maxBuffer length exceeded")
    ELSE (IF stream = "stdout" THEN "stdout maxBuffer exceeded"
                               ELSE "stderr maxBuffer exceeded")

\* the err argument exec hands to its callback
ExecError(rt, cmd, o) ==
    CASE o.kind = "ok"             -> NoError
      [] o.kind = "fail"           -> [code |-> "1", message |-> "Command failed", cmd |-> cmd]
      [] o.kind = "stdoutOverflow" -> [code |-> MaxBufferCode(rt), message |-> MaxBufferMessage(rt, "stdout"), cmd |-> cmd]
      [] o.kind = "stderrOverflow" -> [code |-> MaxBufferCode(rt), message |-> MaxBufferMessage(rt, "stderr"), cmd |-> cmd]

\* the error execSync throws
ExecSyncError(cmd, o) ==
    CASE o.kind = "ok"   -> NoError
      [] o.kind = "fail" -> [code |-> "undefined", message |-> "Command failed", cmd |-> cmd]
      [] OTHER           -> [code |-> "ENOBUFS", message |-> "spawnSync /bin/sh ENOBUFS", cmd |-> cmd]

-----------------------------------------------------------------------------
(* The asynchronous queries: the body of each exec callback, as the           *)
(* completion it hands to the query's cb.  cb() is Value(Undefined).          *)

\* the count taken without trimming: the final line break adds a line
LineCountBuggy(stdout) ==
    IF stdout = <<>> THEN 0 ELSE ParseInt(Len(SplitEOL(stdout)))

LineCount(stdout) ==
    LET trimmed == Trim(stdout)
    IN  IF trimmed = <<>> THEN 0 ELSE ParseInt(Len(SplitEOL(trimmed)))

BranchCb(err, stdout) ==
    IF err # NoError
    THEN IF err.code = "ERR_CHILD_PROCESS_STDIO_MAXBUFFER" THEN Error(err)
         ELSE IF err.message = "stdout maxBuffer exceeded" THEN Error(err)
         ELSE Value(Undefined)
    ELSE Value(Str(Trim(stdout)))

RemoteBranchCb(err, stdout) ==
    IF err # NoError
    THEN IF err.message = "stdout maxBuffer exceeded" THEN Error(err)
         ELSE Value(Undefined)
    ELSE Value(Str(Trim(stdout)))

AheadCb(err, stdout) ==
    IF err # NoError
    THEN IF err.message = "stdout maxBuffer exceeded" THEN Error(err)
         ELSE Value(NaN)
    ELSE Value(Num(LineCount(stdout)))

BehindCb(err, stdout) ==
    IF err # NoError
    THEN IF err.message = "stdout maxBuffer exceeded" THEN Error(err)
         ELSE Value(NaN)
    ELSE Value(Num(LineCount(stdout)))

\* the forEach loop of status and statusSync over the lines of the output
StatusLinesOf(stdout) == FilterBoolean(SplitEOL(Trim(stdout)))

IsUntrackedLine(file) == Substr0(file, 2) = <<"?", "?">>

ParseStatus(stdout) ==
    LET files == StatusLinesOf(stdout)
        untrackedCount == Cardinality({i \in DOMAIN files : IsUntrackedLine(files[i])})
        dirtyCount == Cardinality({i \in DOMAIN files : ~IsUntrackedLine(files[i])})
    IN  StatusCounts(dirtyCount, untrackedCount)

StatusCb(err, stdout) ==
    IF err # NoError THEN Error(err) ELSE Value(ParseStatus(stdout))

\* the callbacks untracked and dirty hand to status
UntrackedCb(c) == IF c.kind = "error" THEN c ELSE Value(Num(c.val.u))
DirtyCb(c) == IF c.kind = "error" THEN c ELSE Value(Num(c.val.n))

CommitCb(err, stdout) ==
    IF err # NoError THEN Error(err) ELSE Value(Str(Trim(stdout)))

StashesCb(err, stdout) ==
    IF err # NoError THEN Error(err)
    ELSE Value(Num(Len(FilterBoolean(SplitEOL(Trim(stdout))))))

MessageCb(err, stdout) ==
    IF err # NoError THEN Error(err) ELSE Value(Str(Trim(stdout)))

\* `if (typeof opts === 'function') return f(repo, {}, opts)`: every
\* asynchronous function but status starts with it
HasArityShim(o) == o # "status"

\* whether the function's parameter cb is bound to the caller's callback
CallbackBound(o, given) == given \/ HasArityShim(o)

-----------------------------------------------------------------------------
(* The synchronous queries: what each returns or throws on the answers r,     *)
(* and the commands it ran, in order                                          *)

Ran(c, log) == [c |-> c, log |-> log]

BranchSync(r) ==
    LET o == r["branch"]
        err == ExecSyncError("branch", o)
    IN  Ran(IF err = NoError THEN Value(Str(Trim(o.stdout)))
            ELSE IF err.code = "ENOBUFS" THEN Error(err)
            ELSE Value(Null),
            <<"branch">>)

RemoteBranchSync(r) ==
    LET o == r["remote"]
        err == ExecSyncError("remote", o)
    IN  Ran(IF err = NoError THEN Value(Str(Trim(o.stdout)))
            ELSE IF err.code = "ENOBUFS" THEN Error(err)
            ELSE Value(Null),
            <<"remote">>)

AheadSync(r) ==
    LET o == r["ahead"]
        err == ExecSyncError("ahead", o)
    IN  Ran(IF err = NoError THEN Value(Num(LineCount(o.stdout)))
            ELSE IF err.code = "ENOBUFS" THEN Error(err)
            ELSE Value(NaN),
            <<"ahead">>)

\* behindSync with remoteBranchSync called in a try block of its own that
\* swallows what it throws: the listing is run all the same
BehindSyncBuggy(r) ==
    LET o == r["behindList"]
        err == ExecSyncError("behindList", o)
    IN  Ran(IF err = NoError THEN Value(Num(LineCount(o.stdout)))
            ELSE IF err.code = "ENOBUFS" THEN Error(err)
            ELSE Value(NaN),
            <<"remote", "behindList">>)

\* remoteBranchSync is called inside the try block: what it throws is ENOBUFS
\* and is thrown on by the catch
BehindSync(r) ==
    LET rb == RemoteBranchSync(r)
        o == r["behindList"]
        err == ExecSyncError("behindList", o)
    IN  IF rb.c.kind = "error"
        THEN Ran(IF rb.c.err.code = "ENOBUFS" THEN rb.c ELSE Value(NaN), rb.log)
        ELSE Ran(IF err = NoError THEN Value(Num(LineCount(o.stdout)))
                 ELSE IF err.code = "ENOBUFS" THEN Error(err)
                 ELSE Value(NaN),
                 rb.log \o <<"behindList">>)

StatusSync(r) ==
    LET o == r["status"]
        err == ExecSyncError("status", o)
    IN  Ran(IF err = NoError THEN Value(ParseStatus(o.stdout)) ELSE Error(err),
            <<"status">>)

UntrackedSync(r) ==
    LET st == StatusSync(r)
    IN  Ran(IF st.c.kind = "error" THEN st.c ELSE Value(Num(st.c.val.u)), st.log)

DirtySync(r) ==
    LET st == StatusSync(r)
    IN  Ran(IF st.c.kind = "error" THEN st.c ELSE Value(Num(st.c.val.n)), st.log)

CommitSync(r) ==
    LET o == r["commit"]
        err == ExecSyncError("commit", o)
    IN  Ran(IF err = NoError THEN Value(Str(Trim(o.stdout))) ELSE Error(err),
            <<"commit">>)

StashesSync(r) ==
    LET o == r["stash"]
        err == ExecSyncError("stash", o)
    IN  Ran(IF err = NoError
            THEN Value(Num(Len(FilterBoolean(SplitEOL(Trim(o.stdout))))))
            ELSE Error(err),
            <<"stash">>)

MessageSync(r) ==
    LET o == r["message"]
        err == ExecSyncError("message", o)
    IN  Ran(IF err = NoError THEN Value(Str(Trim(o.stdout))) ELSE Error(err),
            <<"message">>)

-----------------------------------------------------------------------------
(* check and checkSync *)

\* the constituents of check, in the order of the array given to Promise.all
CheckQueries == <<"branch", "remoteBranch", "ahead", "behind", "stashes", "status">>

CheckQuerySet == {CheckQueries[i] : i \in DOMAIN CheckQueries}

\* the command exec is first called with by each asynchronous query
FirstCmd(q) ==
    CASE q = "branch"       -> "branch"
      [] q = "remoteBranch" -> "remote"
      [] q = "ahead"        -> "ahead"
      [] q = "behind"       -> "remote"
      [] q \in {"status", "dirty", "untracked"} -> "status"
      [] q = "commit"       -> "commit"
      [] q = "stashes"      -> "stash"
      [] q = "message"      -> "message"

Report(b, rb, a, bh, d, u, st) ==
    [t |-> "report", branch |-> b, remoteBranch |-> rb, ahead |-> a, behind |-> bh,
     dirty |-> d, untracked |-> u, stashes |-> st]

ReportFields == {"branch", "remoteBranch", "ahead", "behind", "dirty", "untracked", "stashes"}

\* the destructuring with ahead and behind in each other's place
CheckThenBuggy(results) ==
    Report(results[1], results[2], results[4], results[3],
           Num(results[6].n), Num(results[6].u), results[5])

\* the fulfilment handler of check: the array is destructured by position
CheckThen(results) ==
    Report(results[1], results[2], results[3], results[4],
           Num(results[6].n), Num(results[6].u), results[5])

\* every constituent reporting to cb by itself: cb is called at each failure
PromiseAllThenBuggy(before, q, c) ==
    IF c.kind = "error" THEN <<c>>
    ELSE IF \A p \in CheckQuerySet \ {q} : before[p].kind = "value"
         THEN LET now == [before EXCEPT ![q] = c]
              IN  <<Value(CheckThen([i \in DOMAIN CheckQueries |-> now[CheckQueries[i]].val]))>>
    ELSE <<>>

\* Promise.all(...).then(onFulfilled, cb): the calls of cb made when query q
\* settles with completion c, `before` being the completions so far
PromiseAllThen(before, q, c) ==
    IF \E p \in CheckQuerySet : before[p].kind = "error" THEN <<>>
    ELSE IF c.kind = "error" THEN <<c>>
    ELSE IF \A p \in CheckQuerySet \ {q} : before[p].kind = "value"
         THEN LET now == [before EXCEPT ![q] = c]
              IN  <<Value(CheckThen([i \in DOMAIN CheckQueries |-> now[CheckQueries[i]].val]))>>
    ELSE <<>>

\* the calls of checkSync, in evaluation order
CheckSyncParts(r) ==
    <<StatusSync(r), BranchSync(r), RemoteBranchSync(r), AheadSync(r),
      BehindSync(r), StashesSync(r)>>

RECURSIVE ConcatLogs(_, _)
ConcatLogs(parts, n) ==
    IF n = 0 THEN <<>> ELSE ConcatLogs(parts, n - 1) \o parts[n].log

CheckSync(r) ==
    LET parts == CheckSyncParts(r)
        thrown == {i \in DOMAIN parts : parts[i].c.kind = "error"}
        first == CHOOSE i \in thrown : \A j \in thrown : i <= j
    IN  IF thrown # {}
        THEN Ran(parts[first].c, ConcatLogs(parts, first))
        ELSE Ran(Value(Report(parts[2].c.val, parts[3].c.val, parts[4].c.val,
                              parts[5].c.val, Num(parts[1].c.val.n),
                              Num(parts[1].c.val.u), parts[6].c.val)),
                 ConcatLogs(parts, Len(parts)))

SyncOp(o, r) ==
    CASE o = "branch"       -> BranchSync(r)
      [] o = "remoteBranch" -> RemoteBranchSync(r)
      [] o = "ahead"        -> AheadSync(r)
      [] o = "behind"       -> BehindSync(r)
      [] o = "status"       -> StatusSync(r)
      [] o = "dirty"        -> DirtySync(r)
      [] o = "untracked"    -> UntrackedSync(r)
      [] o = "commit"       -> CommitSync(r)
      [] o = "stashes"      -> StashesSync(r)
      [] o = "message"      -> MessageSync(r)
      [] o = "check"        -> CheckSync(r)

-----------------------------------------------------------------------------
(* State machine *)

Ops == Queries \cup {"check"}

InitCall ==
    /\ form \in {"sync", "async"}
    /\ cfgGiven \in BOOLEAN
    /\ runtime \in Runtimes
    /\ phase = "init"
    /\ pcq = [q \in Queries |-> "idle"]
    /\ remote = Undefined
    /\ settled = [q \in Queries |-> Pending]
    /\ repo = [c \in Cmds |-> NotRun]
    /\ spawnLog = <<>>
    /\ cbCalls = <<>>
    /\ ret = Pending
    /\ uncaught = FALSE

Init == op \in Queries /\ InitCall

InitCheck == op = "check" /\ InitCall

Range(seq) == {seq[i] : i \in DOMAIN seq}

\* a synchronous function runs to its return or throw in one step
CallSync ==
    /\ form = "sync"
    /\ phase = "init"
    /\ \E r \in RepoAnswers(op, "sync") :
          LET x == SyncOp(op, r)
          IN  /\ ret' = x.c
              /\ spawnLog' = x.log
              /\ repo' = [c \in Cmds |-> IF c \in Range(x.log) THEN r[c] ELSE NotRun]
    /\ phase' = "done"
    /\ UNCHANGED <<op, form, cfgGiven, runtime, pcq, remote, settled, cbCalls, uncaught>>

\* check asking dirty and untracked separately: the status command runs twice
StartedBuggy(o) ==
    IF o = "check"
    THEN <<"branch", "remoteBranch", "ahead", "behind", "stashes", "dirty", "untracked">>
    ELSE <<o>>

\* the queries an asynchronous call starts, in order
Started(o) == IF o = "check" THEN CheckQueries ELSE <<o>>

\* an asynchronous function spawns its process(es) and returns
CallAsync ==
    /\ form = "async"
    /\ phase = "init"
    /\ pcq' = [q \in Queries |-> IF q \in Range(Started(op)) THEN "exec" ELSE "idle"]
    /\ spawnLog' = [i \in DOMAIN Started(op) |-> FirstCmd(Started(op)[i])]
    /\ phase' = "running"
    /\ UNCHANGED <<op, form, cfgGiven, runtime, remote, settled, repo, cbCalls, ret, uncaught>>

\* the repository does not change during a call: a command run again is
\* answered as before
Answers(cmd) == IF repo[cmd] # NotRun THEN {repo[cmd]} ELSE Outcomes(op, "async", cmd)

\* query q calls its cb with completion c.  Under check, cb is promisify's
\* callback, which settles the query's promise; otherwise it is the caller's
\* callback, or undefined (calling it throws a TypeError out of the callback).
Deliver(q, c) ==
    /\ pcq' = [pcq EXCEPT ![q] = "done"]
    /\ settled' = [settled EXCEPT ![q] = c]
    /\ IF op = "check"
       THEN /\ cbCalls' = cbCalls \o PromiseAllThen(settled, q, c)
            /\ uncaught' = uncaught
       ELSE IF CallbackBound(op, cfgGiven)
       THEN /\ cbCalls' = Append(cbCalls, c)
            /\ uncaught' = uncaught
       ELSE /\ cbCalls' = cbCalls
            /\ uncaught' = TRUE
    /\ phase' = IF \A p \in Queries \ {q} : pcq[p] \in {"idle", "done"} THEN "done" ELSE "running"

BranchDone ==
    /\ form = "async" /\ pcq["branch"] = "exec"
    /\ \E o \in Answers("branch") :
          /\ repo' = [repo EXCEPT !["branch"] = o]
          /\ Deliver("branch", BranchCb(ExecError(runtime, "branch", o), o.stdout))
    /\ UNCHANGED <<op, form, cfgGiven, runtime, remote, spawnLog, ret>>

RemoteBranchDone ==
    /\ form = "async" /\ pcq["remoteBranch"] = "exec"
    /\ \E o \in Answers("remote") :
          /\ repo' = [repo EXCEPT !["remote"] = o]
          /\ Deliver("remoteBranch", RemoteBranchCb(ExecError(runtime, "remote", o), o.stdout))
    /\ UNCHANGED <<op, form, cfgGiven, runtime, remote, spawnLog, ret>>

AheadDone ==
    /\ form = "async" /\ pcq["ahead"] = "exec"
    /\ \E o \in Answers("ahead") :
          /\ repo' = [repo EXCEPT !["ahead"] = o]
          /\ Deliver("ahead", AheadCb(ExecError(runtime, "ahead", o), o.stdout))
    /\ UNCHANGED <<op, form, cfgGiven, runtime, remote, spawnLog, ret>>

\* the callback behind hands to remoteBranch: on an error cb(er), otherwise
\* the second exec
BehindRemoteDone ==
    /\ form = "async" /\ pcq["behind"] = "exec"
    /\ \E o \in Answers("remote") :
          LET c == RemoteBranchCb(ExecError(runtime, "remote", o), o.stdout)
          IN  /\ repo' = [repo EXCEPT !["remote"] = o]
              /\ IF c.kind = "error"
                 THEN /\ Deliver("behind", c)
                      /\ UNCHANGED <<remote, spawnLog>>
                 ELSE /\ remote' = c.val
                      /\ spawnLog' = Append(spawnLog, "behindList")
                      /\ pcq' = [pcq EXCEPT !["behind"] = "exec2"]
                      /\ UNCHANGED <<settled, cbCalls, uncaught, phase>>
    /\ UNCHANGED <<op, form, cfgGiven, runtime, ret>>

BehindListDone ==
    /\ form = "async" /\ pcq["behind"] = "exec2"
    /\ \E o \in Answers("behindList") :
          /\ repo' = [repo EXCEPT !["behindList"] = o]
          /\ Deliver("behind", BehindCb(ExecError(runtime, "behindList", o), o.stdout))
    /\ UNCHANGED <<op, form, cfgGiven, runtime, remote, spawnLog, ret>>

StatusDone ==
    /\ form = "async" /\ pcq["status"] = "exec"
    /\ \E o \in Answers("status") :
          /\ repo' = [repo EXCEPT !["status"] = o]
          /\ Deliver("status", StatusCb(ExecError(runtime, "status", o), o.stdout))
    /\ UNCHANGED <<op, form, cfgGiven, runtime, remote, spawnLog, ret>>

UntrackedDone ==
    /\ form = "async" /\ pcq["untracked"] = "exec"
    /\ \E o \in Answers("status") :
          /\ repo' = [repo EXCEPT !["status"] = o]
          /\ Deliver("untracked", UntrackedCb(StatusCb(ExecError(runtime, "status", o), o.stdout)))
    /\ UNCHANGED <<op, form, cfgGiven, runtime, remote, spawnLog, ret>>

DirtyDone ==
    /\ form = "async" /\ pcq["dirty"] = "exec"
    /\ \E o \in Answers("status") :
          /\ repo' = [repo EXCEPT !["status"] = o]
          /\ Deliver("dirty", DirtyCb(StatusCb(ExecError(runtime, "status", o), o.stdout)))
    /\ UNCHANGED <<op, form, cfgGiven, runtime, remote, spawnLog, ret>>

CommitDone ==
    /\ form = "async" /\ pcq["commit"] = "exec"
    /\ \E o \in Answers("commit") :
          /\ repo' = [repo EXCEPT !["commit"] = o]
          /\ Deliver("commit", CommitCb(ExecError(runtime, "commit", o), o.stdout))
    /\ UNCHANGED <<op, form, cfgGiven, runtime, remote, spawnLog, ret>>

StashesDone ==
    /\ form = "async" /\ pcq["stashes"] = "exec"
    /\ \E o \in Answers("stash") :
          /\ repo' = [repo EXCEPT !["stash"] = o]
          /\ Deliver("stashes", StashesCb(ExecError(runtime, "stash", o), o.stdout))
    /\ UNCHANGED <<op, form, cfgGiven, runtime, remote, spawnLog, ret>>

MessageDone ==
    /\ form = "async" /\ pcq["message"] = "exec"
    /\ \E o \in Answers("message") :
          /\ repo' = [repo EXCEPT !["message"] = o]
          /\ Deliver("message", MessageCb(ExecError(runtime, "message", o), o.stdout))
    /\ UNCHANGED <<op, form, cfgGiven, runtime, remote, spawnLog, ret>>

Next ==
    \/ CallSync
    \/ CallAsync
    \/ BranchDone
    \/ RemoteBranchDone
    \/ AheadDone
    \/ BehindRemoteDone
    \/ BehindListDone
    \/ StatusDone
    \/ UntrackedDone
    \/ DirtyDone
    \/ CommitDone
    \/ StashesDone
    \/ MessageDone

Spec == Init /\ [][Next]_vars

NextCheck ==
    \/ CallSync
    \/ CallAsync
    \/ BranchDone
    \/ RemoteBranchDone
    \/ AheadDone
    \/ BehindRemoteDone
    \/ BehindListDone
    \/ StashesDone
    \/ StatusDone

SpecCheck == InitCheck /\ [][NextCheck]_vars

-----------------------------------------------------------------------------
(* Vocabulary of the properties *)

\* what the call has handed to its caller so far: the return or throw of a
\* synchronous call, the invocations of the callback of an asynchronous one
Results == IF form = "sync" THEN (IF ret = Pending THEN <<>> ELSE <<ret>>) ELSE cbCalls

Finished == phase = "done"

\* s without its leading and trailing white space
IsTrimOf(t, s) ==
    \E i \in 1..(Len(s) + 1) : \E j \in (i - 1)..Len(s) :
        /\ t = SubSeq(s, i, j)
        /\ \A k \in 1..(i - 1) : IsWhiteSpace(s[k])
        /\ \A k \in (j + 1)..Len(s) : IsWhiteSpace(s[k])
        /\ t # <<>> => ~IsWhiteSpace(t[1]) /\ ~IsWhiteSpace(t[Len(t)])

Trimmed(s) == CHOOSE t \in {SubSeq(s, i, j) : i \in 1..(Len(s) + 1), j \in 0..Len(s)} : IsTrimOf(t, s)

\* the number of lines of a non-empty text: one more than its line breaks
NumLines(t) == 1 + Cardinality({i \in DOMAIN t : t[i] = "\n"})

\* v and w are the same result, null and undefined both being "absent"
SameValue(v, w) == v = w \/ (IsAbsent(v) /\ IsAbsent(w))

Count(seq, x) == Cardinality({i \in DOMAIN seq : seq[i] = x})

\* the command whose output a single query turns into its result
ResultCmd(o) == IF o = "behind" THEN "behindList" ELSE FirstCmd(o)

\* what the asynchronous standalone query q hands to its callback on the
\* answers r under runtime rt
AsyncQuery(q, rt, r) ==
    CASE q = "branch"       -> BranchCb(ExecError(rt, "branch", r["branch"]), r["branch"].stdout)
      [] q = "remoteBranch" -> RemoteBranchCb(ExecError(rt, "remote", r["remote"]), r["remote"].stdout)
      [] q = "ahead"        -> AheadCb(ExecError(rt, "ahead", r["ahead"]), r["ahead"].stdout)
      [] q = "behind"       ->
            LET rb == RemoteBranchCb(ExecError(rt, "remote", r["remote"]), r["remote"].stdout)
            IN  IF rb.kind = "error" THEN rb
                ELSE BehindCb(ExecError(rt, "behindList", r["behindList"]), r["behindList"].stdout)
      [] q = "stashes"      -> StashesCb(ExecError(rt, "stash", r["stash"]), r["stash"].stdout)
      [] q = "status"       -> StatusCb(ExecError(rt, "status", r["status"]), r["status"].stdout)

Standalone(q) == IF form = "sync" THEN SyncOp(q, repo).c ELSE AsyncQuery(q, runtime, repo)

-----------------------------------------------------------------------------
(* C1 *)

OverflowQueries == {"branch", "remoteBranch", "ahead", "behind"}

\* C1: for branch, remoteBranch, ahead and behind, in both forms, a finished
\* call one of whose commands overflowed the output cap (stdout or stderr)
\* has thrown / delivered an error, never absent or NaN.
C1_OverflowPropagated ==
    (op \in OverflowQueries /\ Finished /\ \E c \in Cmds : IsOverflow(repo[c]))
        => (Len(Results) = 1 /\ Results[1].kind = "error")

-----------------------------------------------------------------------------
(* C2 *)

\* the answers recorded are ones the synchronous commands can give as well
SyncComparable == \A c \in Cmds : repo[c] = NotRun \/ repo[c] \in Outcomes(op, "sync", c)

\* C2: a finished asynchronous call has invoked its callback exactly once,
\* with an error exactly when the synchronous form throws on the same
\* answers, and otherwise with the value the synchronous form returns;
\* with the config object passed or omitted.
C2_AsyncMatchesSync ==
    (form = "async" /\ Finished /\ SyncComparable)
        => /\ Len(cbCalls) = 1
           /\ cbCalls[1].kind = SyncOp(op, repo).c.kind
           /\ cbCalls[1].kind = "value" => SameValue(cbCalls[1].val, SyncOp(op, repo).c.val)

-----------------------------------------------------------------------------
(* C3 *)

Settled(kind) == {p \in CheckQuerySet : settled[p].kind = kind}

\* C3: check invokes its callback at most once, and exactly once when all
\* its queries have completed: with the error of a failed constituent and no
\* report, or, all six constituents having succeeded, with a report of all
\* seven fields.  checkSync throws the error of one of its commands, or
\* returns a report of all seven fields after running every constituent.
C3_AllOrNothing ==
    /\ Len(cbCalls) <= 1
    /\ (form = "async" /\ Finished) => Len(cbCalls) = 1
    /\ \A i \in DOMAIN cbCalls :
          \/ /\ cbCalls[i].kind = "error"
             /\ cbCalls[i].val = Undefined
             /\ \E p \in Settled("error") : settled[p] = cbCalls[i]
          \/ /\ cbCalls[i].kind = "value"
             /\ Settled("value") = CheckQuerySet
             /\ DOMAIN cbCalls[i].val = ReportFields \cup {"t"}
    /\ (form = "sync" /\ Finished) =>
          \/ /\ ret.kind = "error"
             /\ ret.val = Undefined
             /\ \E c \in CmdsOf("check") :
                   repo[c] \notin {NotRun} /\ repo[c].kind # "ok" /\ ret.err = ExecSyncError(c, repo[c])
          \/ /\ ret.kind = "value"
             /\ DOMAIN ret.val = ReportFields \cup {"t"}
             /\ \A c \in CmdsOf("check") : repo[c] # NotRun

\* two constituents failed, in either order, and the callback ran once
C3_Witness ==
    /\ form = "async" /\ Finished
    /\ Cardinality(Settled("error")) >= 2
    /\ Len(cbCalls) = 1 /\ cbCalls[1].kind = "error"

-----------------------------------------------------------------------------
(* C4 *)

\* C4 as stated: during one check no external query is executed twice.
C4_NoQueryTwice == \A c \in Cmds : Count(spawnLog, c) <= 1

\* C4 amended: during one check every external query is executed at most
\* once, except the upstream-branch resolution, which is executed at most
\* twice (once for remoteBranch, once inside behind).
C4_AtMostOnceButUpstream ==
    \A c \in Cmds : Count(spawnLog, c) <= (IF c = "remote" THEN 2 ELSE 1)

C4_Witness ==
    /\ Finished
    /\ Count(spawnLog, "remote") = 2
    /\ \A c \in CmdsOf("check") \ {"remote"} : Count(spawnLog, c) = 1

-----------------------------------------------------------------------------
(* C5 *)

\* C5: when check succeeds, each field of its report is what the standalone
\* query of the same form returns on the same repository answers, whatever
\* the order of completion.
C5_ReportMatchesQueries ==
    (Finished /\ Len(Results) = 1 /\ Results[1].kind = "value") =>
        LET rep == Results[1].val
        IN  /\ \A q \in {"branch", "remoteBranch", "ahead", "behind", "stashes"} :
                  /\ Standalone(q).kind = "value"
                  /\ SameValue(rep[q], Standalone(q).val)
            /\ Standalone("status").kind = "value"
            /\ rep.dirty = Num(Standalone("status").val.n)
            /\ rep.untracked = Num(Standalone("status").val.u)

\* the asynchronous check succeeded with distinct counts in every field
C5_Witness ==
    /\ form = "async" /\ Finished
    /\ Len(cbCalls) = 1 /\ cbCalls[1].kind = "value"
    /\ cbCalls[1].val.ahead = Num(1)
    /\ cbCalls[1].val.behind = Num(2)
    /\ cbCalls[1].val.stashes = Num(3)
    /\ cbCalls[1].val.dirty = Num(2)
    /\ cbCalls[1].val.untracked = Num(1)

-----------------------------------------------------------------------------
(* C6 *)

\* C6: a finished ahead or behind whose commit-listing command failed other
\* than by overflow has returned / delivered NaN; one whose listing
\* succeeded has returned 0 if the trimmed output is empty and otherwise the
\* number of lines of the trimmed output.
C6_CountOrNaN ==
    (op \in {"ahead", "behind"} /\ Finished /\ repo[ResultCmd(op)] # NotRun) =>
        LET o == repo[ResultCmd(op)]
        IN  /\ o = Fail => Results = <<Value(NaN)>>
            /\ o.kind = "ok" =>
                  Results = <<Value(Num(IF Trimmed(o.stdout) = <<>> THEN 0
                                        ELSE NumLines(Trimmed(o.stdout))))>>

\* behind counted two lines separated by \r\n
C6_Witness ==
    /\ op = "behind" /\ form = "async" /\ Finished
    /\ repo["behindList"] = Ok(<<"a", "\r", "\n", "a">>)
    /\ cbCalls = <<Value(Num(2))>>

-----------------------------------------------------------------------------
(* C7 *)

\* C7: a finished branch or remoteBranch whose command failed other than by
\* overflow has returned / delivered an absent value; one whose command
\* succeeded has returned the trimmed output.
C7_AbsentOrTrimmed ==
    (op \in {"branch", "remoteBranch"} /\ Finished) =>
        LET o == repo[ResultCmd(op)]
        IN  /\ o = Fail => (Len(Results) = 1 /\ Results[1].kind = "value" /\ IsAbsent(Results[1].val))
            /\ o.kind = "ok" =>
                  /\ Len(Results) = 1 /\ Results[1].kind = "value"
                  /\ Results[1].val.t = "string"
                  /\ IsTrimOf(Results[1].val.s, o.stdout)

C7_Witness ==
    /\ op = "remoteBranch" /\ Finished
    /\ repo["remote"] = Ok(<<" ", "a", "\r", "\n">>)
    /\ Results = <<Value(Str(<<"a">>))>>

-----------------------------------------------------------------------------
(* C8 *)

StrictQueries == {"status", "dirty", "untracked", "commit", "stashes", "message"}

\* C8: a finished status, dirty, untracked, commit, stashes or message whose
\* command failed, for whatever reason, has thrown (synchronous) or handed
\* the error to its callback (asynchronous), and no value.
C8_FailurePropagates ==
    (op \in StrictQueries /\ Finished /\ repo[ResultCmd(op)].kind \in {"fail", "stdoutOverflow", "stderrOverflow"})
        => (Len(Results) = 1 /\ Results[1].kind = "error" /\ Results[1].err.cmd = ResultCmd(op))

-----------------------------------------------------------------------------
(* C9 *)

\* the non-empty lines of the output, and those among them marked "??"
NonEmptyLines(out) == {i \in DOMAIN SplitEOL(out) : SplitEOL(out)[i] # <<>>}
MarkedUntracked(out) ==
    {i \in NonEmptyLines(out) :
        Len(SplitEOL(out)[i]) >= 2 /\ SubSeq(SplitEOL(out)[i], 1, 2) = <<"?", "?">>}

-----------------------------------------------------------------------------
(* C10 *)

\* the processes in flight
InFlight == {q \in Queries : pcq[q] \in {"exec", "exec2"}}

\* C10: a query other than behind spawns exactly one process per call.
\* behind spawns the remoteBranch process first and the listing process only
\* once remoteBranch has completed, at most two in all and never two at a
\* time; when the remoteBranch lookup propagates an error, behind has failed
\* with that error and spawned nothing more.
C10_Processes ==
    /\ Cardinality(InFlight) <= 1
    /\ (op # "behind" /\ phase # "init") => spawnLog = <<FirstCmd(op)>>
    /\ op = "behind" =>
          /\ spawnLog \in {<<>>, <<"remote">>, <<"remote", "behindList">>}
          /\ phase # "init" => spawnLog # <<>>
          /\ Count(spawnLog, "behindList") = 1 => repo["remote"] # NotRun
          /\ (Finished /\ Standalone("remoteBranch").kind = "error") =>
                /\ Results = <<Standalone("remoteBranch")>>
                /\ spawnLog = <<"remote">>

C10_Witness ==
    /\ op = "behind" /\ Finished
    /\ repo["remote"] = StdoutOverflow
    /\ spawnLog = <<"remote">>
    /\ Len(Results) = 1 /\ Results[1].kind = "error" /\ Results[1].err.cmd = "remote"

====
